---- MODULE Spec2Model ----
(***************************************************************************)
(* Model of src/pulse_id_interface.py: the Streamlit offer creator.        *)
(*                                                                         *)
(* The script is re-run from the top on every interaction.  One action of  *)
(* the model is one run of the script (Generate Offer, an edit of a        *)
(* widget, a plain rerun), except the run started by the Publish button,   *)
(* which blocks on two HTTP round trips and reads the clock twice: that    *)
(* run is split at those points (pc).                                      *)
(*                                                                         *)
(* Python values: a dict is a function over the keys it holds; a number n  *)
(* is Num(n); None is None; the text format_currency returns is a value    *)
(* of kind "str".  offer_type and value_type hold plain strings.  The free *)
(* text fields (offer_name, audience, conditions, description) are left    *)
(* out of the records: no operation modelled here branches on them.        *)
(***************************************************************************)
EXTENDS Integers, Sequences, FiniteSets, TLC

\* ---------------------------------------------------------------- bounds
MaxAmount == 1
MaxDuration == 1
MaxRedemptions == 1
MaxDay == 1

\* ---------------------------------------------------------------- values
Num(n) == [kind |-> "num", n |-> n]
None == [kind |-> "none"]
IsNone(x) == "kind" \in DOMAIN x /\ x["kind"] = "none"
IsNum(x) == "kind" \in DOMAIN x /\ x["kind"] = "num"
EmptyDict == [k \in {} |-> None]

\* dict.get(key, default)
Get(d, key, default) == IF key \in DOMAIN d THEN d[key] ELSE default
\* d[key] = v
Set(d, key, v) == [k \in DOMAIN d \cup {key} |-> IF k = key THEN v ELSE d[k]]
\* Python truth of a dict-or-None, and of a number-or-None
Truthy(x) == ~IsNone(x) /\ DOMAIN x # {}
TruthyNum(v) == IsNum(v) /\ v.n # 0

\* str.upper() on the strings reward_type can be computed from
Upper(s) ==
    CASE s = "cashback" -> "CASHBACK"
      [] s = "discount" -> "DISCOUNT"
      [] s = "free_shipping" -> "FREE_SHIPPING"
      [] s = "DISCOUNT" -> "DISCOUNT"

\* a text is <<prefix, what str() is applied to, suffix>>
format_currency(amount) == [kind |-> "str", s |-> <<"\\$", amount, "">>]

\* ------------------------------------------------------- offer records
OfferTypes == {"cashback", "discount", "free_shipping"}
ValueTypes == {"percentage", "fixed"}
Amounts == {Num(n) : n \in 0..MaxAmount}
Durations == {Num(n) : n \in 1..MaxDuration}
Redemptions == {Num(n) : n \in 1..MaxRedemptions}

\* the dicts holding key k with a value of vals, and (optional) not holding k
Field(k, vals, optional) ==
    {(k :> v) : v \in vals} \cup (IF optional THEN {EmptyDict} ELSE {})

\* the JSON objects of the schema of the extraction prompt; a key the reply
\* omits is absent, max_redemptions may be null
OfferRecords ==
    { a @@ b @@ c @@ d @@ e @@ f :
        a \in Field("offer_type", OfferTypes, TRUE),
        b \in Field("value_type", ValueTypes, FALSE),
        c \in Field("value", Amounts, FALSE),
        d \in Field("min_spend", Amounts, TRUE),
        e \in Field("duration_days", Durations, TRUE),
        f \in Field("max_redemptions", Redemptions \cup {None}, TRUE) }

\* the replies the extraction service is drawn from: a reply holding every
\* key, the replies that differ from it in the form of one key (absent, null,
\* percentage), and the empty object
BaseReply ==
    ("offer_type" :> "cashback") @@ ("value_type" :> "fixed")
    @@ ("value" :> Num(MaxAmount)) @@ ("min_spend" :> Num(MaxAmount))
    @@ ("duration_days" :> Num(MaxDuration))
    @@ ("max_redemptions" :> Num(MaxRedemptions))

Without(d, key) == [k \in DOMAIN d \ {key} |-> d[k]]

Replies ==
    {BaseReply, EmptyDict,
     Set(BaseReply, "value_type", "percentage"),
     Set(BaseReply, "max_redemptions", None)}
    \cup {Without(BaseReply, k) :
            k \in {"offer_type", "min_spend", "duration_days", "max_redemptions"}}

\* ------------------------------------------------------------ HTTP replies
\* a reply is its status and its body: of the identity endpoint the token
\* fields the JSON holds, of the offer endpoint a JSON object, the empty JSON
\* object or text that is no JSON
AuthReplies ==
    [status : {200, 201, 500},
     body : {{"permissionToken", "authToken"}, {"permissionToken"}, {"authToken"}}]
OfferReplies ==
    [status : {200, 401, 403, 500}, body : {"object", "empty", "not_json"}]

\* a check of the status that lets every reply through
ResponseOkAlways(status) == TRUE

\* requests.Response.ok
ResponseOk(status) == status < 400

\* ------------------------------------------------------------------ state
VARIABLES
    offer_params,      \* st.session_state.offer_params
    adjusted_params,   \* st.session_state.adjusted_params
    offer_created,     \* st.session_state.offer_created
    lms_credentials,   \* st.session_state.lms_credentials
    params_display,    \* the raw-parameter panel of the last run, or None
    offer_card,        \* what display_offer rendered in the last run, or None
    publish_message,   \* "none", "success" (st.success), "failed" (st.error)
    lms_error,         \* st.error("LMS Publishing Error: ...") was shown
    pc,                \* where the running script stands; "idle" between runs
    params,            \* create_offer's argument
    auth,              \* publish_to_lms's local: the token pair, or None
    start_date,        \* create_offer's local
    payload,           \* the JSON body of the offer POST in flight, or None
    auth_reply,        \* the identity endpoint's reply in this publish, or None
    offer_reply,       \* the offer endpoint's reply in this publish, or None
    auth_calls,        \* POSTs to the identity endpoint in this publish
    offer_posts,       \* POSTs to the offer endpoint in this publish
    from_latest,       \* history: adjusted_params was copied from the result
                       \* of the most recent call of extract_offer_parameters
    session_valid      \* history: tokens were obtained and no reply since
                       \* was a failed authentication, a 401 or a 403

session == <<offer_params, adjusted_params, offer_created, lms_credentials>>
rendered == <<params_display, offer_card, publish_message, lms_error>>
locals == <<params, auth, start_date, payload>>
http == <<auth_reply, offer_reply, auth_calls, offer_posts>>
history == <<from_latest, session_valid>>
vars == <<session, rendered, locals, http, history, pc>>

\* --------------------------------------------------- the script's functions
\* the panel formatted in place, on the stored record and not on a copy
show_parameters_in_place(op) ==
    LET shown == IF Truthy(op) /\ "min_spend" \in DOMAIN op
                 THEN Set(op, "min_spend", format_currency(op["min_spend"]))
                 ELSE op
    IN  [offer_params |-> shown,
         params_display |-> IF Truthy(op) THEN shown ELSE None]

\* lines 266-272: the raw-parameter panel shows a copy of offer_params with
\* min_spend formatted; the stored record is returned next to it
show_parameters(op) ==
    IF Truthy(op)
    THEN [offer_params |-> op,
          params_display |->
              IF "min_spend" \in DOMAIN op
              THEN Set(op, "min_spend", format_currency(op["min_spend"]))
              ELSE op]
    ELSE [offer_params |-> op, params_display |-> None]

\* offer_editor: every widget writes its value into adjusted_params; edits
\* holds the widgets the operator changed, the others return their default
Widget(adj, edits, k, default) ==
    Set(adj, k, Get(edits, k, Get(adj, k, default)))

\* lines 214-219: the Max Redemptions input is drawn for a truthy value only
MaxRedemptionsWidget(adj, edits) ==
    IF TruthyNum(Get(adj, "max_redemptions", None))
    THEN Widget(adj, edits, "max_redemptions", None)
    ELSE adj

offer_editor(adj, edits) ==
    MaxRedemptionsWidget(
        Widget(Widget(Widget(Widget(adj, edits, "offer_type", "cashback"),
                             edits, "value", Num(0)),
                      edits, "min_spend", Num(0)),
               edits, "duration_days", Num(7)),
        edits)

\* display_offer up to the Publish button: the card it renders, next to the
\* record it was given
display_offer(p, creds) ==
    [adjusted_params |-> p,
     offer_card |->
        [value_display |->
            IF "value_type" \in DOMAIN p /\ p["value_type"] = "percentage"
            THEN [kind |-> "str", s |-> <<"", p["value"], "%">>]
            ELSE format_currency(p["value"]),
         min_spend |-> format_currency(Get(p, "min_spend", Num(0))),
         publish_button |-> creds.email # "" /\ creds.password # ""]]

\* lines 266-281 of one run, no button pressed
ScriptTail(op, adj, created, creds, edits) ==
    show_parameters(op)
    @@ IF created /\ Truthy(adj)
       THEN display_offer(offer_editor(adj, edits), creds)
       ELSE [adjusted_params |-> adj, offer_card |-> None]

\* the token pair read without a check that the reply holds both fields
AuthResultUnchecked(reply) ==
    IF ~(reply.status < 400) THEN None
    ELSE [permissionToken |-> "permission", authToken |-> "auth"]

\* authenticate_user's return value; None stands for the exception it raises
AuthResult(reply) ==
    IF ~ResponseOk(reply.status) THEN None
    ELSE IF "permissionToken" \notin reply.body \/ "authToken" \notin reply.body
    THEN None
    ELSE [permissionToken |-> "permission", authToken |-> "auth"]

\* create_offer, lines 58-59 and 65-73
StartDate(today) == [day |-> today, time |-> "00:00:00"]
EndDate(p, today) ==
    [day |-> today + Get(p, "duration_days", Num(7)).n, time |-> "23:59:59"]
RewardTypeCashbackOrDiscount(p) ==
    IF "offer_type" \in DOMAIN p /\ p["offer_type"] = "cashback"
    THEN "CASHBACK" ELSE "DISCOUNT"
RewardType(p) == Upper(Get(p, "offer_type", "DISCOUNT"))
RewardLimit(p) == Get(p, "max_redemptions", Num(100))
BuildPayload(p, start, end) ==
    [rules |-> [reward_type |-> RewardType(p),
                redemption_mechanism |-> "QR_CODE",
                code_applicability |-> "SINGLE_USAGE",
                reward_limit |-> RewardLimit(p)],
     addRules |-> [start_date |-> start, end_date |-> end,
                   timezone |-> "Asia/Colombo"],
     budget |-> [maximum_redemption |-> Get(p, "max_redemptions", None)]]

\* create_offer's return value response.json(); None stands for an exception
OfferResult(reply) ==
    IF reply.body = "not_json" THEN None ELSE [json |-> reply.body]

\* ------------------------------------------------------------------- Init
Credentials ==
    [email : {"", "ops@merchant"}, password : {"", "secret"}, app : {"lms"}]

\* lines 9-20: a new session, nothing drawn, no publish made
NewSession ==
    /\ offer_params = None /\ adjusted_params = None /\ offer_created = FALSE
    /\ params_display = None /\ offer_card = None
    /\ publish_message = "none" /\ lms_error = FALSE
    /\ from_latest = FALSE

Init ==
    /\ NewSession
    /\ lms_credentials \in Credentials
    /\ pc = "idle"
    /\ params = None /\ auth = None /\ start_date = None /\ payload = None
    /\ auth_reply = None /\ offer_reply = None
    /\ auth_calls = 0 /\ offer_posts = 0
    /\ session_valid = FALSE

\* ---------------------------------------------------------------- actions
\* a run of the script redraws the page: the previous publish's messages go
ClearPublish ==
    /\ publish_message' = "none" /\ lms_error' = FALSE
    /\ auth_reply' = None /\ offer_reply' = None
    /\ auth_calls' = 0 /\ offer_posts' = 0

\* lines 266-281 with the widgets' values edits (t is the one value of
\* ScriptTail, bound so that it is computed once)
RunTail(op, adj, created, edits) ==
    \E t \in {ScriptTail(op, adj, created, lms_credentials, edits)} :
        /\ offer_params' = t.offer_params
        /\ params_display' = t.params_display
        /\ adjusted_params' = t.adjusted_params
        /\ offer_card' = t.offer_card
        /\ offer_created' = created

\* a run no button of which is pressed: Refresh Preview, a change of the
\* text area, Generate Offer with an empty prompt
Rerun ==
    /\ pc = "idle"
    /\ RunTail(offer_params, adjusted_params, offer_created, EmptyDict)
    /\ ClearPublish
    /\ UNCHANGED <<lms_credentials, locals, history, pc>>

\* the operator changes one widget of the editor
EditWidget(k, v) ==
    /\ pc = "idle"
    /\ ~IsNone(offer_card)
    /\ k = "max_redemptions" =>
           TruthyNum(Get(adjusted_params, "max_redemptions", None))
    /\ RunTail(offer_params, adjusted_params, offer_created, (k :> v))
    /\ ClearPublish
    /\ UNCHANGED <<lms_credentials, locals, history, pc>>

Edit ==
    \/ \E v \in OfferTypes : EditWidget("offer_type", v)
    \/ \E v \in Amounts : EditWidget("value", v)
    \/ \E v \in Amounts : EditWidget("min_spend", v)
    \/ \E v \in Durations : EditWidget("duration_days", v)
    \/ \E v \in Redemptions : EditWidget("max_redemptions", v)

\* lines 259-264, Generate Offer with a prompt: reply is what
\* extract_offer_parameters returns, None when it failed
GenerateOffer(reply) ==
    /\ pc = "idle"
    /\ IF IsNone(reply)
       THEN \* line 262 raises AttributeError: the run ends there
            /\ offer_params' = None
            /\ params_display' = None /\ offer_card' = None
            /\ from_latest' = FALSE
            /\ UNCHANGED <<adjusted_params, offer_created>>
       ELSE \* st.rerun(): the next run renders the new record
            /\ RunTail(reply, reply, TRUE, EmptyDict)
            /\ from_latest' = TRUE
    /\ ClearPublish
    /\ UNCHANGED <<lms_credentials, locals, pc, session_valid>>

\* a Publish that keeps the tokens of an earlier publish and skips the login
PublishClickCached ==
    /\ pc = "idle"
    /\ ~IsNone(offer_card) /\ offer_card.publish_button
    /\ RunTail(offer_params, adjusted_params, offer_created, EmptyDict)
    /\ ClearPublish
    /\ params' = adjusted_params'
    /\ IF session_valid
       THEN /\ pc' = "create_offer"
            /\ auth' = [permissionToken |-> "permission", authToken |-> "auth"]
       ELSE /\ pc' = "authenticate"
            /\ auth' = auth
    /\ UNCHANGED <<lms_credentials, start_date, payload, history>>

\* lines 247-249: the Publish button; the run reaches publish_to_lms
PublishClick ==
    /\ pc = "idle"
    /\ ~IsNone(offer_card) /\ offer_card.publish_button
    /\ RunTail(offer_params, adjusted_params, offer_created, EmptyDict)
    /\ ClearPublish
    /\ params' = adjusted_params'
    /\ pc' = "authenticate"
    /\ UNCHANGED <<lms_credentials, auth, start_date, payload, history>>

\* publish_to_lms's except branch and lines 250-254 after it
PublishFailed ==
    /\ lms_error' = TRUE
    /\ publish_message' = "failed"
    /\ pc' = "idle"
    /\ params' = None /\ auth' = None /\ start_date' = None /\ payload' = None

\* lines 113-117: the POST to the identity endpoint and its reply
authenticate_user(reply) ==
    /\ pc = "authenticate"
    /\ auth_calls' = auth_calls + 1
    /\ auth_reply' = reply
    /\ LET tokens == AuthResult(reply)
       IN  IF IsNone(tokens)
           THEN /\ PublishFailed
                /\ session_valid' = FALSE
           ELSE /\ auth' = tokens
                /\ pc' = "create_offer"
                /\ session_valid' = TRUE
                /\ UNCHANGED <<params, start_date, payload, publish_message,
                               lms_error>>
    /\ UNCHANGED <<session, params_display, offer_card, offer_reply,
                   offer_posts, from_latest>>

\* line 58; today is the day datetime.now() falls on
create_offer_start(today) ==
    /\ pc = "create_offer"
    /\ start_date' = StartDate(today)
    /\ pc' = "end_date"
    /\ UNCHANGED <<session, rendered, params, auth, payload, http, history>>

\* lines 59-107: the payload is built and posted; today is the day the second
\* datetime.now() falls on, the one line 58 read or a later one
create_offer_post(today) ==
    /\ pc = "end_date"
    /\ today >= start_date.day
    /\ payload' = BuildPayload(params, start_date, EndDate(params, today))
    /\ offer_posts' = offer_posts + 1
    /\ pc' = "post"
    /\ UNCHANGED <<session, rendered, params, auth, start_date, auth_reply,
                   offer_reply, auth_calls, history>>

\* a reply handler that logs in again and posts again after a first 401 or 403
offer_response_retry(reply) ==
    /\ pc = "post"
    /\ offer_reply' = reply
    /\ session_valid' = (session_valid /\ reply.status \notin {401, 403})
    /\ LET result == OfferResult(reply)
       IN  IF reply.status \in {401, 403} /\ offer_posts = 1
           THEN /\ pc' = "authenticate"
                /\ auth' = None /\ start_date' = None /\ payload' = None
                /\ UNCHANGED <<params, publish_message, lms_error>>
           ELSE IF IsNone(result)
           THEN PublishFailed
           ELSE /\ publish_message' =
                       IF result.json = "object" THEN "success" ELSE "failed"
                /\ pc' = "idle"
                /\ params' = None /\ auth' = None
                /\ start_date' = None /\ payload' = None
                /\ UNCHANGED lms_error
    /\ UNCHANGED <<session, params_display, offer_card, auth_reply,
                   auth_calls, offer_posts, from_latest>>

\* lines 107-109, 119-122 and 250-254: the offer endpoint's reply
offer_response(reply) ==
    /\ pc = "post"
    /\ offer_reply' = reply
    /\ session_valid' = (session_valid /\ reply.status \notin {401, 403})
    /\ LET result == OfferResult(reply)
       IN  IF IsNone(result)
           THEN PublishFailed
           ELSE /\ publish_message' =
                       IF result.json = "object" THEN "success" ELSE "failed"
                /\ pc' = "idle"
                /\ params' = None /\ auth' = None
                /\ start_date' = None /\ payload' = None
                /\ UNCHANGED lms_error
    /\ UNCHANGED <<session, params_display, offer_card, auth_reply,
                   auth_calls, offer_posts, from_latest>>

Days == 0..MaxDay

Next ==
    \/ Rerun
    \/ Edit
    \/ \E reply \in Replies \cup {None} : GenerateOffer(reply)
    \/ PublishClick
    \/ \E reply \in AuthReplies : authenticate_user(reply)
    \/ \E today \in Days : create_offer_start(today)
    \/ \E today \in Days : create_offer_post(today)
    \/ \E reply \in OfferReplies : offer_response(reply)

Spec == Init /\ [][Next]_vars

\* ------------------------------------------- create_offer on any record
\* publish_to_lms at line 118, called with any record of the schema: the
\* identity endpoint has answered 200 with both tokens
InitPayload ==
    /\ NewSession
    /\ lms_credentials = [email |-> "ops@merchant", password |-> "secret", app |-> "lms"]
    /\ pc = "create_offer"
    /\ params \in OfferRecords
    /\ auth_reply = [status |-> 200, body |-> {"permissionToken", "authToken"}]
    /\ auth = AuthResult(auth_reply)
    /\ start_date = None /\ payload = None /\ offer_reply = None
    /\ auth_calls = 1 /\ offer_posts = 0
    /\ session_valid = TRUE

NextPayload ==
    \/ \E today \in Days : create_offer_start(today)
    \/ \E today \in Days : create_offer_post(today)

SpecPayload == InitPayload /\ [][NextPayload]_vars

\* ----------------------------------------------------------------- claims
BothTokens == {"permissionToken", "authToken"}
Denied == ~IsNone(offer_reply) /\ offer_reply.status \in {401, 403}

C3_AuthFailureEndsPublish ==
    (~IsNone(auth_reply) /\ auth_reply.status >= 400) =>
        /\ pc = "idle"
        /\ publish_message = "failed" /\ lms_error
        /\ offer_posts = 0 /\ IsNone(offer_reply) /\ IsNone(payload)

C3_Witness ==
    /\ ~IsNone(auth_reply) /\ auth_reply.status = 500
    /\ pc = "idle" /\ publish_message = "failed" /\ offer_posts = 0

\* C4: after a reply of the offer endpoint other than a 401 or 403, the
\* operator is shown "published successfully" only if its status was 200.
C4_SuccessOnlyOn200 ==
    (~IsNone(offer_reply) /\ offer_reply.status \notin {401, 403}) =>
        (publish_message = "success" => offer_reply.status = 200)

\* C5, as stated: tokens are held only after a reply with status 200 that holds
\* both token fields; after any other reply there are none and the publish has
\* ended with the error outcome.
C5_TokensOnlyOn200 ==
    ~IsNone(auth_reply) =>
        LET good == auth_reply.status = 200 /\ BothTokens \subseteq auth_reply.body
        IN  /\ ~IsNone(auth) => good
            /\ ~good => (IsNone(auth) /\ pc = "idle" /\ publish_message = "failed")

\* C5, amended: tokens are held only after a reply with a status below 400
\* that holds both token fields; after any other reply there are none and the
\* publish has ended with the error outcome.
C5_TokensOnlyOnOkReplyWithBothTokens ==
    ~IsNone(auth_reply) =>
        LET good == auth_reply.status < 400 /\ BothTokens \subseteq auth_reply.body
        IN  /\ ~IsNone(auth) => good
            /\ ~good => (IsNone(auth) /\ pc = "idle" /\ publish_message = "failed")
            /\ (good /\ IsNone(offer_reply)) => ~IsNone(auth)

C5_Witness ==
    /\ pc = "create_offer" /\ ~IsNone(auth)
    /\ auth_reply.status = 201 /\ BothTokens \subseteq auth_reply.body

\* C6, as stated: reward_type is CASHBACK for offer_type cashback and DISCOUNT
\* for every other or absent offer_type.
C6_CashbackElseDiscount ==
    pc = "post" =>
        payload.rules.reward_type =
            IF "offer_type" \in DOMAIN params /\ params["offer_type"] = "cashback"
            THEN "CASHBACK" ELSE "DISCOUNT"

\* C6, amended: reward_type is offer_type in upper case (CASHBACK, DISCOUNT,
\* FREE_SHIPPING), and DISCOUNT when the record has no offer_type.
C6_RewardTypeIsUpperCase ==
    pc = "post" =>
        LET sent == payload.rules.reward_type
        IN  IF "offer_type" \notin DOMAIN params THEN sent = "DISCOUNT"
            ELSE /\ params["offer_type"] = "cashback" => sent = "CASHBACK"
                 /\ params["offer_type"] = "discount" => sent = "DISCOUNT"
                 /\ params["offer_type"] = "free_shipping" => sent = "FREE_SHIPPING"

C6_Witness ==
    /\ pc = "post"
    /\ "offer_type" \in DOMAIN params /\ params["offer_type"] = "free_shipping"
    /\ payload.rules.reward_type = "FREE_SHIPPING"

\* C7: in the payload one create_offer call builds, end_date's day is start_date's
\* day plus duration_days, with the times 00:00:00 and 23:59:59.
C7_EndIsStartPlusDuration ==
    pc = "post" =>
        LET dates == payload.addRules
        IN  /\ dates.start_date.time = "00:00:00"
            /\ dates.end_date.time = "23:59:59"
            /\ "duration_days" \in DOMAIN params =>
                   dates.end_date.day = dates.start_date.day + params["duration_days"].n

\* C8: reward_limit is max_redemptions when the record has a number there, and
\* 100 when max_redemptions is absent or null.
C8_RewardLimitDefaultsTo100 ==
    pc = "post" =>
        payload.rules.reward_limit =
            IF "max_redemptions" \in DOMAIN params /\ IsNum(params["max_redemptions"])
            THEN params["max_redemptions"] ELSE Num(100)

\* C9: value and min_spend of offer_params and of adjusted_params are numbers
\* in every state: the formatted text is never written into a stored record.
BareNumbers(d) ==
    Truthy(d) => \A k \in {"value", "min_spend"} \cap DOMAIN d : IsNum(d[k])

C9_StoredAmountsStayNumbers ==
    BareNumbers(offer_params) /\ BareNumbers(adjusted_params)

C9_Witness ==
    /\ ~IsNone(params_display) /\ "min_spend" \in DOMAIN params_display
    /\ params_display["min_spend"] = format_currency(offer_params["min_spend"])
    /\ ~IsNone(offer_card)
    /\ offer_card.min_spend = format_currency(adjusted_params["min_spend"])

\* C10: whenever the editor and the Publish button are on the page (offer_created
\* is true, adjusted_params is set and the run drew them), adjusted_params
\* comes from the most recent extraction.
C10_EditorShowsLatestExtraction ==
    (offer_created /\ Truthy(adjusted_params) /\ ~IsNone(offer_card)) => from_latest

====
